---------------------------- MODULE Spec2Model ----------------------------
(* A model of libmudtelnet: the option compatibility table, the IAC escape  *)
(* codec, the negotiation engine, the stream classifier, the line deframer  *)
(* and the outbound helpers of Parser, together with two parsers joined by  *)
(* FIFO channels.  Indices of byte buffers are 0-based as in the source;    *)
(* sequences are 1-based, so buf[index + 1] reads the source's buf[index].  *)
EXTENDS Integers, Sequences, FiniteSets, TLC

VARIABLES
    options,        \* Parser.options: the table, option code -> Entry value
    deframe_lines,  \* Parser.deframe_lines
    buffer,         \* Parser.buffer: bytes received and not yet classified
    line_buffer,    \* Parser.line_buffer
    event_list,     \* the events returned by the last call
    call,           \* the last call made on the parser and its arguments
    pre,            \* the parser's fields when the last call was made
    repeated,       \* the last call repeats the call made just before it
    peer_options,   \* the table of a second parser, the remote end
    chanAB,         \* DataSend buffers in flight from the parser to the peer
    chanBA,         \* DataSend buffers in flight from the peer to the parser
    calls,          \* number of helper calls made on the two connected parsers
    replies,        \* DataSends returned by receive after a single helper call,
                    \* counted by the direction they are sent in
    esc_data,       \* the argument of escape_iac
    esc_res,        \* the result of the last codec call
    esc_pc,         \* position of the escape round trip
    msg,            \* a byte sequence fed to receive in fragments
    fed,            \* how many bytes of msg have been fed
    all_events      \* the events of all the receive calls that fed msg

vars == <<options, deframe_lines, buffer, line_buffer, event_list, call, pre,
          repeated, peer_options, chanAB, chanBA, calls, replies, esc_data,
          esc_res, esc_pc, msg, fed, all_events>>

-----------------------------------------------------------------------------
(* Bounds of the model.                                                     *)

\* longest argument of escape_iac
MaxEscLen == 4
\* longest chunk given to one receive call on the table-centred parser
MaxChunk == 2
\* longest line_buffer the exploration lets a call leave behind
MaxLine == 2
\* longest chunk given to one receive call on the line-deframing parser
MaxLineChunk == 4
\* helper calls made, on both engines together, in one run of the exchange
MaxCalls == 2
\* protocol units (data byte, command, negotiation, subnegotiation) in one
\* complete byte sequence
MaxUnits == 2
\* protocol units in the data of one receive call of the ordering check
MaxOrderUnits == 3
\* longest chunk given to one receive call on the stream-centred parser
MaxStreamChunk == 2
\* longest unparsed buffer the exploration lets a call leave behind
MaxBuf == 4

-----------------------------------------------------------------------------
(* telnet::op_command and telnet::op_option                                 *)

IAC == 255
DONT == 254
DO == 253
WONT == 252
WILL == 251
SB == 250
GA == 249
NOP == 241
SE == 240
EOR == 239
MCCP2 == 86
MCCP3 == 87

\* an option code that is not one of the MCCP codes; also a plain data byte
ECHO == 1

\* every byte value of the model; any of them may appear as an option code
Bytes == {IAC, DONT, DO, WONT, WILL, SB, GA, NOP, SE, EOR, MCCP2, MCCP3, ECHO,
          10, 13, 65}

\* the option codes the calls and negotiations of the model name
Opts == {ECHO, MCCP2}

-----------------------------------------------------------------------------
(* compatibility::Entry: a u8 bit mask                                      *)

ENABLED_LOCAL == 1
ENABLED_REMOTE == 2
LOCAL_STATE == 4
REMOTE_STATE == 8

HasMask(v, m) == (v \div m) % 2 = 1
SetMask(v, m) == IF HasMask(v, m) THEN v ELSE v + m
ClearMask(v, m) == IF HasMask(v, m) THEN v - m ELSE v

local_support(e) == HasMask(e, ENABLED_LOCAL)
set_local_support(e) == SetMask(e, ENABLED_LOCAL)
remote_support(e) == HasMask(e, ENABLED_REMOTE)
set_remote_support(e) == SetMask(e, ENABLED_REMOTE)
local_enabled(e) == HasMask(e, LOCAL_STATE)
set_local_enabled(e) == SetMask(e, LOCAL_STATE)
clear_local_enabled(e) == ClearMask(e, LOCAL_STATE)
remote_enabled(e) == HasMask(e, REMOTE_STATE)
set_remote_enabled(e) == SetMask(e, REMOTE_STATE)
clear_remote_enabled(e) == ClearMask(e, REMOTE_STATE)

DEFINED_FLAGS == ENABLED_LOCAL + ENABLED_REMOTE + LOCAL_STATE + REMOTE_STATE

\* val & DEFINED_FLAGS
\* a slip: the raw byte stored as it is
MaskNothing(val) == val

MaskDefined(val) == val % (DEFINED_FLAGS + 1)

(* compatibility::Table: one Entry per option code                          *)

TableDefault == [o \in Bytes |-> 0]

RECURSIVE from_options(_)
from_options(values) ==
    IF values = <<>> THEN TableDefault
    ELSE LET n == Len(values)
             t == from_options(SubSeq(values, 1, n - 1))
         IN [t EXCEPT ![values[n][1]] = MaskDefined(values[n][2])]

support_local(t, option) == [t EXCEPT ![option] = set_local_support(@)]
support_remote(t, option) == [t EXCEPT ![option] = set_remote_support(@)]
support(t, option) ==
    [t EXCEPT ![option] = set_remote_support(set_local_support(@))]
\* a slip: the remote side forgotten
ResetStatesLocalOnly(t) == [o \in DOMAIN t |-> clear_local_enabled(t[o])]

reset_states(t) ==
    [o \in DOMAIN t |-> clear_remote_enabled(clear_local_enabled(t[o]))]

-----------------------------------------------------------------------------
(* events::Event                                                            *)

NoBytes == <<>>

EvIac(command) ==
    [type |-> "Iac", command |-> command, option |-> 0, buffer |-> NoBytes]
EvNegotiation(command, option) ==
    [type |-> "Negotiation", command |-> command, option |-> option,
     buffer |-> NoBytes]
EvSubnegotiation(option, buf) ==
    [type |-> "Subnegotiation", command |-> 0, option |-> option, buffer |-> buf]
EvDataReceive(buf) ==
    [type |-> "DataReceive", command |-> 0, option |-> 0, buffer |-> buf]
EvLineReceive(buf) ==
    [type |-> "LineReceive", command |-> 0, option |-> 0, buffer |-> buf]
EvDataSend(buf) ==
    [type |-> "DataSend", command |-> 0, option |-> 0, buffer |-> buf]
EvDecompressImmediate(buf) ==
    [type |-> "DecompressImmediate", command |-> 0, option |-> 0, buffer |-> buf]

\* impl From<Negotiation> for Bytes
NegotiationBytes(command, option) == <<IAC, command, option>>

-----------------------------------------------------------------------------
(* Parser::escape_iac and Parser::unescape_iac                              *)

RECURSIVE escape_iac(_)
escape_iac(data) ==
    IF data = <<>> THEN <<>>
    ELSE LET byte == Head(data)
         IN (IF byte = IAC THEN <<byte, IAC>> ELSE <<byte>>)
            \o escape_iac(Tail(data))

\* a slip: the second IAC of a pair is emitted as well
UnescapeStepKeepsPair(state, val) ==
    IF state = "Normal" /\ val = IAC THEN [state |-> "Iac", out |-> <<val>>]
    ELSE IF state = "Iac" /\ val = IAC THEN [state |-> "Normal", out |-> <<val>>]
    ELSE [state |-> "Normal", out |-> <<val>>]

\* one iteration of the loop of unescape_iac: the next state and out_val
UnescapeStep(state, val) ==
    IF state = "Normal" /\ val = IAC THEN [state |-> "Iac", out |-> <<val>>]
    ELSE IF state = "Iac" /\ val = IAC THEN [state |-> "Normal", out |-> <<>>]
    ELSE [state |-> "Normal", out |-> <<val>>]

RECURSIVE UnescapeFrom(_, _)
UnescapeFrom(state, data) ==
    IF data = <<>> THEN <<>>
    ELSE LET r == UnescapeStep(state, Head(data))
         IN r.out \o UnescapeFrom(r.state, Tail(data))

unescape_iac(data) == UnescapeFrom("Normal", data)

\* impl From<Subnegotiation> for Bytes
SubnegotiationBytes(option, buf) ==
    <<IAC, SB, option>> \o escape_iac(buf) \o <<IAC, SE>>

-----------------------------------------------------------------------------
(* Parser: the fields as one record, for the operators below               *)

ParserOf(t, dl, buf, lb) ==
    [options |-> t, deframe_lines |-> dl, buffer |-> buf, line_buffer |-> lb]

\* Option<Event> as returned by the helpers: no event, or one
None == <<>>
Some(ev) == <<ev>>

(* Parser::negotiate, _will, _wont, _do, _dont, subnegotiation, send_text   *)

negotiate(command, option) == EvDataSend(NegotiationBytes(command, option))

\* the early return of _will (lib.rs:189)
WillReturnsNone(opt) == ~local_support(opt) \/ local_enabled(opt)
_will(t, option) ==
    IF WillReturnsNone(t[option]) THEN [options |-> t, ret |-> None]
    ELSE [options |-> [t EXCEPT ![option] = set_local_enabled(@)],
          ret |-> Some(negotiate(WILL, option))]

\* the early return of _wont (lib.rs:208)
WontReturnsNone(opt) == ~local_enabled(opt)
_wont(t, option) ==
    IF WontReturnsNone(t[option]) THEN [options |-> t, ret |-> None]
    ELSE [options |-> [t EXCEPT ![option] = clear_local_enabled(@)],
          ret |-> Some(negotiate(WONT, option))]

\* the early return of _do (lib.rs:230)
DoReturnsNone(opt) == ~remote_support(opt) \/ remote_enabled(opt)
_do(t, option) ==
    IF DoReturnsNone(t[option]) THEN [options |-> t, ret |-> None]
    ELSE [options |-> [t EXCEPT ![option] = set_remote_enabled(@)],
          ret |-> Some(negotiate(DO, option))]

\* the early return of _dont (lib.rs:248); _dont writes no entry
DontReturnsNone(opt) == ~remote_enabled(opt)
_dont(t, option) ==
    IF DontReturnsNone(t[option]) THEN [options |-> t, ret |-> None]
    ELSE [options |-> t, ret |-> Some(negotiate(DONT, option))]

\* the early return of subnegotiation (lib.rs:274)
SubnegotiationReturnsNone(opt) == ~local_support(opt) \/ ~local_enabled(opt)
subnegotiation(t, option, data) ==
    IF SubnegotiationReturnsNone(t[option]) THEN None
    ELSE Some(EvDataSend(SubnegotiationBytes(option, data)))

\* send_text: format!("{text}\r\n"), escaped
send_text(text) == EvDataSend(escape_iac(text \o <<13, 10>>))

-----------------------------------------------------------------------------
(* Parser::process_negotiation: the guards of the match arms, in order      *)

\* a slip: the test of remote_enabled not negated
WillAcceptedWhenEnabled(entry) == remote_support(entry) /\ remote_enabled(entry)
WillAccepted(entry) == remote_support(entry) /\ ~remote_enabled(entry)
\* a slip: a repeated WILL refused as well
WillRejectedOrEnabled(entry) == ~remote_support(entry) \/ remote_enabled(entry)
WillRejected(entry) == ~remote_support(entry)
\* a slip: the support flag asked for before the option is switched off
WontClearsWhenSupported(entry) == remote_support(entry) /\ remote_enabled(entry)
WontClears(entry) == remote_enabled(entry)
\* a slip: DO accepted without asking for local support
DoAcceptedUnsupported(entry) == ~local_enabled(entry)
DoAccepted(entry) == local_support(entry) /\ ~local_enabled(entry)
\* a slip: the enabled flag tested the other way round
DoRejectedWhenEnabled(entry) == ~local_support(entry) \/ local_enabled(entry)
DoRejected(entry) == ~local_support(entry) \/ ~local_enabled(entry)
\* a slip: the flag of the other side tested
DontClearsWhenRemote(entry) == remote_enabled(entry)
DontClears(entry) == local_enabled(entry)

\* the entry as the DO arm leaves it (lib.rs:402-403)
\* a slip: the support setter called in place of the enabled setter
DoAcceptEntrySupport(entry) == set_remote_support(set_local_enabled(entry))
\* a slip: the remote side left as it was
DoAcceptEntryLocalOnly(entry) == set_local_enabled(entry)
DoAcceptEntry(entry) == set_remote_enabled(set_local_enabled(entry))

process_negotiation(t, command, option) ==
    LET entry == t[option]
        event == EvNegotiation(command, option)
    IN IF command = WILL /\ WillAccepted(entry) THEN
           [options |-> [t EXCEPT ![option] = set_remote_enabled(@)],
            events |-> <<EvDataSend(<<IAC, DO, option>>), event>>]
       ELSE IF command = WILL /\ WillRejected(entry) THEN
           [options |-> t, events |-> <<EvDataSend(<<IAC, DONT, option>>)>>]
       ELSE IF command = WONT /\ WontClears(entry) THEN
           [options |-> [t EXCEPT ![option] = clear_remote_enabled(@)],
            events |-> <<EvDataSend(<<IAC, DONT, option>>), event>>]
       ELSE IF command = DO /\ DoAccepted(entry) THEN
           [options |-> [t EXCEPT ![option] = DoAcceptEntry(@)],
            events |-> <<EvDataSend(<<IAC, WILL, option>>), event>>]
       ELSE IF command = DO /\ DoRejected(entry) THEN
           [options |-> t, events |-> <<EvDataSend(<<IAC, WONT, option>>)>>]
       ELSE IF command = DONT /\ DontClears(entry) THEN
           [options |-> [t EXCEPT ![option] = clear_local_enabled(@)],
            events |-> <<EvDataSend(<<IAC, WONT, option>>), event>>]
       ELSE IF command = DONT \/ command = WONT THEN
           [options |-> t, events |-> <<event>>]
       ELSE [options |-> t, events |-> <<>>]

-----------------------------------------------------------------------------
(* Parser::extract_event_data                                               *)

\* buf.slice(from..to), 0-based and end-exclusive
Slice(buf, from, to) == SubSeq(buf, from + 1, to)

\* Option<Bytes>
NoneBytes == [some |-> FALSE, bytes |-> NoBytes]
SomeBytes(b) == [some |-> TRUE, bytes |-> b]

\* EventType
TypeNone(b) == [kind |-> "None", buffer |-> b, remaining |-> NoneBytes]
TypeIac(b) == [kind |-> "Iac", buffer |-> b, remaining |-> NoneBytes]
TypeNeg(b) == [kind |-> "Neg", buffer |-> b, remaining |-> NoneBytes]
TypeSubNegotiation(b, remaining) ==
    [kind |-> "SubNegotiation", buffer |-> b, remaining |-> remaining]

\* State
StNormal == [s |-> "Normal", opt |-> 0]
StIac == [s |-> "Iac", opt |-> 0]
StNeg == [s |-> "Neg", opt |-> 0]
StSub == [s |-> "Sub", opt |-> 0]
StSubOpt(opt) == [s |-> "SubOpt", opt |-> opt]
StSubIac(opt) == [s |-> "SubIac", opt |-> opt]

\* the guard of the MCCP arm (lib.rs:472)
IsCompressOption(opt) == opt = MCCP2 \/ opt = MCCP3

\* the state a further IAC leaves a subnegotiation in (lib.rs:468-470)
SubIacOnIac(opt) == StSubIac(opt)

\* a slip: NOP left out of the two-byte commands
IsIacCommandNoNop(val) == val \in {GA, EOR}

\* the two-byte commands (lib.rs:457)
IsIacCommand(val) == val \in {GA, EOR, NOP}

\* the loop of extract_event_data from `index` on; done is the break
RECURSIVE ScanFrom(_, _, _, _, _)
ScanFrom(buf, index, iter_state, cmd_begin, events) ==
    IF index >= Len(buf) THEN
        [iter_state |-> iter_state, cmd_begin |-> cmd_begin, events |-> events]
    ELSE
    LET val == buf[index + 1]
        s == iter_state.s
    IN IF s = "Normal" /\ val = IAC THEN
           ScanFrom(buf, index + 1, StIac, index,
                    IF cmd_begin # index
                    THEN Append(events, TypeNone(Slice(buf, cmd_begin, index)))
                    ELSE events)
       ELSE IF s = "Iac" /\ val = IAC THEN
           ScanFrom(buf, index + 1, StNormal, cmd_begin, events)
       ELSE IF s = "Iac" /\ IsIacCommand(val) THEN
           ScanFrom(buf, index + 1, StNormal, index + 1,
                    Append(events, TypeIac(Slice(buf, cmd_begin, index + 1))))
       ELSE IF s = "Iac" /\ val = SB THEN
           ScanFrom(buf, index + 1, StSub, cmd_begin, events)
       ELSE IF s = "Iac" THEN
           ScanFrom(buf, index + 1, StNeg, cmd_begin, events)
       ELSE IF s = "Neg" THEN
           ScanFrom(buf, index + 1, StNormal, index + 1,
                    Append(events, TypeNeg(Slice(buf, cmd_begin, index + 1))))
       ELSE IF s = "Sub" THEN
           ScanFrom(buf, index + 1, StSubOpt(val), cmd_begin, events)
       ELSE IF s \in {"SubOpt", "SubIac"} /\ val = IAC THEN
           ScanFrom(buf, index + 1, SubIacOnIac(iter_state.opt), cmd_begin, events)
       ELSE IF s = "SubIac" /\ val = SE /\ IsCompressOption(iter_state.opt) THEN
           [iter_state |-> iter_state, cmd_begin |-> Len(buf),
            events |-> Append(events,
                TypeSubNegotiation(Slice(buf, cmd_begin, index + 1),
                                   SomeBytes(Slice(buf, index + 1, Len(buf)))))]
       ELSE IF s = "SubIac" /\ val = SE THEN
           ScanFrom(buf, index + 1, StNormal, index + 1,
                    Append(events,
                        TypeSubNegotiation(Slice(buf, cmd_begin, index + 1),
                                           NoneBytes)))
       ELSE IF s = "SubIac" THEN
           ScanFrom(buf, index + 1, StSubOpt(iter_state.opt), cmd_begin, events)
       ELSE ScanFrom(buf, index + 1, iter_state, cmd_begin, events)

\* the spans of the snapshot buf (self.buffer is left empty)
\* a slip: a pending introducer taken for an open subnegotiation
InSubnegotiationOrIac(iter_state) ==
    iter_state.s \in {"Iac", "Sub", "SubOpt", "SubIac"}

\* the states whose trailing bytes are a subnegotiation span (lib.rs:496)
InSubnegotiation(iter_state) == iter_state.s \in {"Sub", "SubOpt", "SubIac"}

extract_event_data(buf) ==
    LET r == ScanFrom(buf, 0, StNormal, 0, <<>>)
    IN IF r.cmd_begin < Len(buf) THEN
           IF InSubnegotiation(r.iter_state)
           THEN Append(r.events,
                    TypeSubNegotiation(Slice(buf, r.cmd_begin, Len(buf)), NoneBytes))
           ELSE Append(r.events, TypeNone(Slice(buf, r.cmd_begin, Len(buf))))
       ELSE r.events

-----------------------------------------------------------------------------
(* Parser::deframe_lines                                                    *)

\* a slip: REVERSE_EOL forgotten
IsEolProperOnly(a, b) == a = 13 /\ b = 10
IsEol(a, b) == (a = 13 /\ b = 10) \/ (a = 10 /\ b = 13)

\* line_buffer.windows(2).position(..): 0-based, or -1 for None
LineEnd(lb) ==
    LET hits == {i \in 0 .. Len(lb) - 2 : IsEol(lb[i + 1], lb[i + 2])}
    IN IF hits = {} THEN -1 ELSE CHOOSE i \in hits : \A j \in hits : i <= j

RECURSIVE deframe_lines_from(_, _)
deframe_lines_from(lb, events) ==
    LET line_end == LineEnd(lb)
    IN IF line_end < 0 THEN [line_buffer |-> lb, events |-> events]
       ELSE deframe_lines_from(Slice(lb, line_end + 2, Len(lb)),
                Append(events, EvLineReceive(Slice(lb, 0, line_end))))

\* the method deframe_lines (the field of that name is the variable)
do_deframe_lines(lb) == deframe_lines_from(lb, <<>>)

-----------------------------------------------------------------------------
(* Parser::process                                                          *)

\* the subnegotiation span ends with IAC SE (lib.rs:357)
ValidEnding(b) == b[Len(b) - 1] = IAC /\ b[Len(b)] = SE

\* a slip: the span delivered whatever the entry of its option says
SubnegotiationDeliveredUngated(opt, len) == len - 2 >= 3

\* a slip: a content byte asked for
SubnegotiationDeliveredNonEmpty(opt, len) ==
    local_support(opt) /\ local_enabled(opt) /\ len - 2 > 3

\* the span is delivered as a Subnegotiation event (lib.rs:360)
SubnegotiationDelivered(opt, len) ==
    local_support(opt) /\ local_enabled(opt) /\ len - 2 >= 3

\* one iteration of the loop of process: p is the parser, out the event list
ProcessOne(p, out, event) ==
    LET b == event.buffer
        len == Len(b)
    IN IF event.kind # "SubNegotiation" THEN
           IF len = 2 /\ b[1] = IAC /\ b[2] # SE THEN
               [parser |-> p, events |-> Append(out, EvIac(b[2])), panic |-> FALSE]
           ELSE IF len >= 3 /\ b[1] = IAC THEN
               LET r == process_negotiation(p.options, b[2], b[3])
               IN [parser |-> [p EXCEPT !.options = r.options],
                   events |-> out \o r.events, panic |-> FALSE]
           ELSE IF len >= 1 /\ b[1] # IAC THEN
               IF p.deframe_lines THEN
                   LET d == do_deframe_lines(p.line_buffer \o b)
                   IN [parser |-> [p EXCEPT !.line_buffer = d.line_buffer],
                       events |-> out \o d.events, panic |-> FALSE]
               ELSE
                   [parser |-> [p EXCEPT !.line_buffer = @ \o b],
                    events |-> Append(out, EvDataReceive(b)), panic |-> FALSE]
           ELSE [parser |-> p, events |-> out, panic |-> FALSE]
       ELSE IF len < 2 THEN
           \* buffer[len - 2] is out of range
           [parser |-> p, events |-> out, panic |-> TRUE]
       ELSE IF ValidEnding(b) THEN
           IF len < 3 THEN
               \* buffer[2] is out of range
               [parser |-> p, events |-> out, panic |-> TRUE]
           ELSE IF SubnegotiationDelivered(p.options[b[3]], len) THEN
               [parser |-> p,
                events |-> out \o <<EvSubnegotiation(b[3], Slice(b, 3, len - 2))>>
                    \o (IF event.remaining.some
                        THEN <<EvDecompressImmediate(event.remaining.bytes)>>
                        ELSE <<>>),
                panic |-> FALSE]
           ELSE [parser |-> p, events |-> out, panic |-> FALSE]
       ELSE
           [parser |-> [p EXCEPT !.buffer = @ \o b], events |-> out,
            panic |-> FALSE]

RECURSIVE ProcessFrom(_, _, _)
ProcessFrom(p, out, events) ==
    IF events = <<>> THEN [parser |-> p, events |-> out, panic |-> FALSE]
    ELSE LET r == ProcessOne(p, out, Head(events))
         IN IF r.panic THEN r ELSE ProcessFrom(r.parser, r.events, Tail(events))

\* process, with self.buffer holding the snapshot on entry
process(p) ==
    ProcessFrom([p EXCEPT !.buffer = <<>>], <<>>, extract_event_data(p.buffer))

(* Parser::receive                                                          *)
receive(p, data) == process([p EXCEPT !.buffer = @ \o data])

(* Parser::flush_line                                                       *)
flush_line(p) ==
    IF p.line_buffer = <<>> THEN [parser |-> p, ret |-> NoneBytes]
    ELSE [parser |-> [p EXCEPT !.line_buffer = <<>>],
          ret |-> SomeBytes(p.line_buffer)]

(* Parser::linemode_enabled is not modelled: no claim reads it.             *)

-----------------------------------------------------------------------------
(* The calls on one parser                                                  *)

Self == ParserOf(options, deframe_lines, buffer, line_buffer)

CallOf(name, command, option, data) ==
    [name |-> name, command |-> command, option |-> option, data |-> data]
NoCall == CallOf("new", 0, 0, <<>>)

\* the previous result has been taken by the caller: a new call can be made
Taken == call = NoCall

\* the parser becomes p, the call returns events
Returns(c, p, events) ==
    /\ Taken
    /\ pre' = Self
    /\ call' = c
    /\ repeated' = FALSE
    /\ options' = p.options
    /\ deframe_lines' = p.deframe_lines
    /\ buffer' = p.buffer
    /\ line_buffer' = p.line_buffer
    /\ event_list' = events

\* the call just made is made once more, with nothing in between
ReturnsAgain(c, p, events) ==
    /\ call = c
    /\ ~repeated
    /\ pre' = Self
    /\ call' = c
    /\ repeated' = TRUE
    /\ options' = p.options
    /\ deframe_lines' = p.deframe_lines
    /\ buffer' = p.buffer
    /\ line_buffer' = p.line_buffer
    /\ event_list' = events

ParserNew(t, dl) ==
    /\ options = t
    /\ deframe_lines = dl
    /\ buffer = <<>>
    /\ line_buffer = <<>>
    /\ event_list = <<>>
    /\ call = NoCall
    /\ repeated = FALSE
    /\ pre = ParserOf(t, dl, <<>>, <<>>)

ParserUnchanged ==
    UNCHANGED <<options, deframe_lines, buffer, line_buffer, event_list, call,
                pre, repeated>>

NoReplies == [AB |-> 0, BA |-> 0]
PeerIdle ==
    /\ peer_options = TableDefault /\ chanAB = <<>> /\ chanBA = <<>>
    /\ calls = 0 /\ replies = NoReplies
PeerUnchanged == UNCHANGED <<peer_options, chanAB, chanBA, calls, replies>>
CodecIdle == esc_data = <<>> /\ esc_res = <<>> /\ esc_pc = "idle"
CodecUnchanged == UNCHANGED <<esc_data, esc_res, esc_pc>>
FeedIdle == msg = <<>> /\ fed = 0 /\ all_events = <<>>
FeedUnchanged == UNCHANGED <<msg, fed, all_events>>

OthersUnchanged == PeerUnchanged /\ CodecUnchanged /\ FeedUnchanged

\* what the caller of receive gets when an index is out of range: no event
\* list, the call panics
Panicked == <<[type |-> "Panic", command |-> 0, option |-> 0, buffer |-> NoBytes]>>

\* receive(data); the exploration stops where the buffers would outgrow maxbuf
\* and maxline
Receive(data, maxbuf, maxline) ==
    /\ Taken
    /\ LET r == receive(Self, data)
       IN
       /\ Len(r.parser.buffer) <= maxbuf
       /\ Len(r.parser.line_buffer) <= maxline
       /\ Returns(CallOf("receive", 0, 0, data), r.parser,
                  IF r.panic THEN Panicked ELSE r.events)
       /\ OthersUnchanged

Will(option) ==
    /\ Taken
    /\ LET r == _will(options, option)
       IN
       /\ Returns(CallOf("_will", 0, option, <<>>),
                  [Self EXCEPT !.options = r.options], r.ret)
       /\ OthersUnchanged

WillAgain(option) ==
    /\ call = CallOf("_will", 0, option, <<>>)
    /\ LET r == _will(options, option)
       IN
       /\ ReturnsAgain(CallOf("_will", 0, option, <<>>),
                       [Self EXCEPT !.options = r.options], r.ret)
       /\ OthersUnchanged

Wont(option) ==
    /\ Taken
    /\ LET r == _wont(options, option)
       IN
       /\ Returns(CallOf("_wont", 0, option, <<>>),
                  [Self EXCEPT !.options = r.options], r.ret)
       /\ OthersUnchanged

WontAgain(option) ==
    /\ call = CallOf("_wont", 0, option, <<>>)
    /\ LET r == _wont(options, option)
       IN
       /\ ReturnsAgain(CallOf("_wont", 0, option, <<>>),
                       [Self EXCEPT !.options = r.options], r.ret)
       /\ OthersUnchanged

Do(option) ==
    /\ Taken
    /\ LET r == _do(options, option)
       IN
       /\ Returns(CallOf("_do", 0, option, <<>>),
                  [Self EXCEPT !.options = r.options], r.ret)
       /\ OthersUnchanged

DoAgain(option) ==
    /\ call = CallOf("_do", 0, option, <<>>)
    /\ LET r == _do(options, option)
       IN
       /\ ReturnsAgain(CallOf("_do", 0, option, <<>>),
                       [Self EXCEPT !.options = r.options], r.ret)
       /\ OthersUnchanged

Dont(option) ==
    /\ Taken
    /\ LET r == _dont(options, option)
       IN
       /\ Returns(CallOf("_dont", 0, option, <<>>),
                  [Self EXCEPT !.options = r.options], r.ret)
       /\ OthersUnchanged

DontAgain(option) ==
    /\ call = CallOf("_dont", 0, option, <<>>)
    /\ LET r == _dont(options, option)
       IN
       /\ ReturnsAgain(CallOf("_dont", 0, option, <<>>),
                       [Self EXCEPT !.options = r.options], r.ret)
       /\ OthersUnchanged

Negotiate(command, option) ==
    /\ Taken
    /\ Returns(CallOf("negotiate", command, option, <<>>), Self,
               <<negotiate(command, option)>>)
    /\ OthersUnchanged

Subnegotiation(option, data) ==
    /\ Taken
    /\ Returns(CallOf("subnegotiation", 0, option, data), Self,
               subnegotiation(options, option, data))
    /\ OthersUnchanged

SendText(text) ==
    /\ Taken
    /\ Returns(CallOf("send_text", 0, 0, text), Self, <<send_text(text)>>)
    /\ OthersUnchanged

FlushLine ==
    /\ Taken
    /\ LET r == flush_line(Self)
       IN
       /\ Returns(CallOf("flush_line", 0, 0, r.ret.bytes), r.parser, <<>>)
       /\ OthersUnchanged

SupportLocal(option) ==
    /\ Taken
    /\ Returns(CallOf("support_local", 0, option, <<>>),
               [Self EXCEPT !.options = support_local(options, option)], <<>>)
    /\ OthersUnchanged

SupportRemote(option) ==
    /\ Taken
    /\ Returns(CallOf("support_remote", 0, option, <<>>),
               [Self EXCEPT !.options = support_remote(options, option)], <<>>)
    /\ OthersUnchanged

Support(option) ==
    /\ Taken
    /\ Returns(CallOf("support", 0, option, <<>>),
               [Self EXCEPT !.options = support(options, option)], <<>>)
    /\ OthersUnchanged

ResetStates ==
    /\ Taken
    /\ Returns(CallOf("reset_states", 0, 0, <<>>),
               [Self EXCEPT !.options = reset_states(options)], <<>>)
    /\ OthersUnchanged

\* the caller takes the returned events; the parser is as the call left it
Take ==
    /\ ~Taken
    /\ call' = NoCall
    /\ repeated' = FALSE
    /\ event_list' = <<>>
    /\ pre' = Self
    /\ UNCHANGED <<options, deframe_lines, buffer, line_buffer>>
    /\ OthersUnchanged

-----------------------------------------------------------------------------
(* Spec: one parser with line deframing off, any table over Opts, every     *)
(* call; receive is given negotiations and short arbitrary chunks.          *)

\* all sequences over S of length 0 .. n
SeqsUpTo(S, n) == UNION {[1 .. k -> S] : k \in 0 .. n}

\* the raw flag bytes given to from_options
RawFlags == (0 .. 15) \cup {16, 165, 240, 255}

InitTables ==
    {from_options(<<<<ECHO, a>>, <<MCCP2, b>>>>) : a \in RawFlags, b \in RawFlags}

Commands == {WILL, WONT, DO, DONT}

NegotiationChunks == {<<IAC, c, o>> : c \in Commands, o \in Opts}

\* the bytes of the arbitrary chunks: an introducer, a command, a data byte
ChunkBytes == {IAC, DO, ECHO}

\* a doubled introducer with a data byte before it, after it, or both
PairChunks ==
    {<<IAC, IAC, ECHO>>, <<ECHO, IAC, IAC>>, <<ECHO, IAC, IAC, ECHO>>}

TableChunks ==
    NegotiationChunks \cup PairChunks
        \cup (SeqsUpTo(ChunkBytes, MaxChunk) \ {<<>>})

Payloads == {<<>>, <<ECHO>>, <<IAC>>}
Texts == {<<>>, <<65>>}

Init ==
    /\ \E t \in InitTables : ParserNew(t, FALSE)
    /\ PeerIdle /\ CodecIdle /\ FeedIdle

Next ==
    \/ \E data \in TableChunks : Receive(data, 0, MaxLine)
    \/ \E o \in Opts : Will(o)
    \/ \E o \in Opts : Wont(o)
    \/ \E o \in Opts : Do(o)
    \/ \E o \in Opts : Dont(o)
    \/ \E o \in Opts : WillAgain(o)
    \/ \E o \in Opts : WontAgain(o)
    \/ \E o \in Opts : DoAgain(o)
    \/ \E o \in Opts : DontAgain(o)
    \/ \E c \in Commands, o \in Opts : Negotiate(c, o)
    \/ \E o \in Opts, d \in Payloads : Subnegotiation(o, d)
    \/ \E text \in Texts : SendText(text)
    \/ FlushLine
    \/ \E o \in Opts : SupportLocal(o)
    \/ \E o \in Opts : SupportRemote(o)
    \/ \E o \in Opts : Support(o)
    \/ ResetStates
    \/ Take

Spec == Init /\ [][Next]_vars

-----------------------------------------------------------------------------
(* Properties of the calls on one parser, checked under Spec                *)

Helpers == {"_will", "_wont", "_do", "_dont"}
SupportCalls == {"support_local", "support_remote", "support"}

\* entries a and b agree on every flag but the one with mask m
SameBut(a, b, m) ==
    \A k \in {ENABLED_LOCAL, ENABLED_REMOTE, LOCAL_STATE, REMOTE_STATE} \ {m} :
        HasMask(a, k) = HasMask(b, k)

\* table t equals table u but, at most, for the entry of option o
SameButEntry(t, u, o) == \A x \in DOMAIN t : x # o => t[x] = u[x]

(* C3. Idempotent helpers: when a call of _will, _wont, _do or _dont        *)
(* repeats the call made just before it (same helper, same option, nothing  *)
(* in between), the second call returns None and leaves the table as it was.*)
C3_IdempotentHelpers ==
    (repeated /\ call.name \in Helpers) =>
        (event_list = None /\ options = pre.options)

(* C5. WILL acceptance: receive of exactly the three bytes IAC WILL option  *)
(* (nothing pending in the unparsed buffer), for an entry with              *)
(* remote-support set and remote-enabled clear, returns                     *)
(* [DataSend(IAC DO option), Negotiation{WILL, option}], sets               *)
(* remote-enabled of that entry and changes no other flag and no other      *)
(* entry.                                                                   *)
C5_WillAcceptance ==
    \A o \in Bytes :
        ( /\ call.name = "receive"
          /\ call.data = <<IAC, WILL, o>>
          /\ pre.buffer = <<>>
          /\ remote_support(pre.options[o])
          /\ ~remote_enabled(pre.options[o]) )
        => /\ event_list = <<EvDataSend(<<IAC, DO, o>>), EvNegotiation(WILL, o)>>
           /\ remote_enabled(options[o])
           /\ SameBut(options[o], pre.options[o], REMOTE_STATE)
           /\ SameButEntry(options, pre.options, o)

C5_Witness ==
    /\ call.name = "receive"
    /\ call.data = <<IAC, WILL, ECHO>>
    /\ pre.buffer = <<>>
    /\ remote_support(pre.options[ECHO])
    /\ ~remote_enabled(pre.options[ECHO])
    /\ local_enabled(pre.options[ECHO])
    /\ pre.options[MCCP2] = 15
    /\ Len(event_list) = 2

\* no entry of t has local-enabled set with local-support clear
LocalEnabledSupported(t) ==
    \A o \in DOMAIN t : local_enabled(t[o]) => local_support(t[o])

(* C9. local-enabled implies local-support is preserved by every call: if   *)
(* it held of the table when the call was made, it holds when the call      *)
(* returns (receive of any bytes, the helpers, negotiate, subnegotiation,   *)
(* support_local, support_remote, support, reset_states).                   *)
C9_LocalEnabledImpliesSupport ==
    LocalEnabledSupported(pre.options) => LocalEnabledSupported(options)

C9_Witness ==
    /\ LocalEnabledSupported(pre.options)
    /\ call.name = "receive"
    /\ ~local_enabled(pre.options[ECHO])
    /\ local_enabled(options[ECHO])

(* C10. Support flags are frame-preserved: a call other than support_local, *)
(* support_remote and support leaves local-support and remote-support of    *)
(* every entry as they were; _will and _wont change at most local-enabled   *)
(* of the option they name, _do and _dont at most remote-enabled of the     *)
(* option they name, and negotiate, subnegotiation and send_text change no  *)
(* entry.                                                                   *)
C10_SupportBitsPreserved ==
    /\ call.name \notin SupportCalls =>
        \A o \in Bytes :
            /\ local_support(options[o]) = local_support(pre.options[o])
            /\ remote_support(options[o]) = remote_support(pre.options[o])
    /\ call.name \in {"_will", "_wont"} =>
        /\ SameButEntry(options, pre.options, call.option)
        /\ SameBut(options[call.option], pre.options[call.option], LOCAL_STATE)
    /\ call.name \in {"_do", "_dont"} =>
        /\ SameButEntry(options, pre.options, call.option)
        /\ SameBut(options[call.option], pre.options[call.option], REMOTE_STATE)
    /\ call.name \in {"negotiate", "subnegotiation", "send_text"} =>
        options = pre.options

C10_Witness ==
    /\ call.name = "receive"
    /\ options # pre.options
    /\ local_support(pre.options[MCCP2])

-----------------------------------------------------------------------------
(* SpecEsc: escape_iac applied to a byte sequence, then unescape_iac        *)
(* applied to the result.                                                   *)

\* the bytes of the arguments: the introducer, SE and a plain byte
EscBytes == {IAC, SE, ECHO}

InitEsc ==
    /\ ParserNew(TableDefault, FALSE)
    /\ PeerIdle /\ FeedIdle
    /\ esc_data \in SeqsUpTo(EscBytes, MaxEscLen)
    /\ esc_res = <<>>
    /\ esc_pc = "idle"

Escape ==
    /\ esc_pc = "idle"
    /\ esc_res' = escape_iac(esc_data)
    /\ esc_pc' = "escaped"
    /\ UNCHANGED esc_data
    /\ ParserUnchanged /\ PeerUnchanged /\ FeedUnchanged

Unescape ==
    /\ esc_pc = "escaped"
    /\ esc_res' = unescape_iac(esc_res)
    /\ esc_pc' = "unescaped"
    /\ UNCHANGED esc_data
    /\ ParserUnchanged /\ PeerUnchanged /\ FeedUnchanged

NextEsc == Escape \/ Unescape

SpecEsc == InitEsc /\ [][NextEsc]_vars

\* the number of bytes of s equal to b
RECURSIVE Count(_, _)
Count(s, b) ==
    IF s = <<>> THEN 0
    ELSE (IF Head(s) = b THEN 1 ELSE 0) + Count(Tail(s), b)

(* C4. Escape round trip: escape_iac emits every byte equal to 255 twice    *)
(* and every other byte once, and unescape_iac of the escaped sequence is   *)
(* the original sequence, for every sequence (empty, without 255, with runs *)
(* of 255 of odd and even length).                                          *)
C4_EscapeRoundTrip ==
    /\ esc_pc = "escaped" =>
        /\ Len(esc_res) = Len(esc_data) + Count(esc_data, IAC)
        /\ \A b \in EscBytes :
            Count(esc_res, b) = (IF b = IAC THEN 2 ELSE 1) * Count(esc_data, b)
    /\ esc_pc = "unescaped" => esc_res = esc_data

C4_Witness ==
    /\ esc_pc = "unescaped"
    /\ esc_data = <<IAC, IAC, IAC, SE>>
    /\ esc_res = esc_data

-----------------------------------------------------------------------------
(* SpecStream: one parser with line deframing off, fed short chunks of      *)
(* introducers, subnegotiation brackets, an MCCP option code and a plain    *)
(* byte; incomplete subnegotiations wait in the unparsed buffer.  The       *)
(* caller flushes the line buffer when it takes the events.                 *)

StreamBytes == {IAC, SB, SE, MCCP2, ECHO}

StreamChunks == SeqsUpTo(StreamBytes, MaxStreamChunk) \ {<<>>}

\* local-support and local-enabled, each set or clear
StreamFlags == {0, ENABLED_LOCAL, LOCAL_STATE, ENABLED_LOCAL + LOCAL_STATE}

StreamTables ==
    {from_options(<<<<ECHO, a>>, <<MCCP2, b>>>>) : a \in StreamFlags, b \in StreamFlags}

InitStream ==
    /\ \E t \in StreamTables : ParserNew(t, FALSE)
    /\ PeerIdle /\ CodecIdle /\ FeedIdle

\* the caller takes the events and calls flush_line
TakeFlush ==
    /\ ~Taken
    /\ call' = NoCall
    /\ repeated' = FALSE
    /\ event_list' = <<>>
    /\ line_buffer' = flush_line(Self).parser.line_buffer
    /\ pre' = [Self EXCEPT !.line_buffer = line_buffer']
    /\ UNCHANGED <<options, deframe_lines, buffer>>
    /\ OthersUnchanged

NextStream ==
    \/ \E data \in StreamChunks : Receive(data, MaxBuf, MaxBuf + MaxStreamChunk)
    \/ TakeFlush

SpecStream == InitStream /\ [][NextStream]_vars

\* the bytes the last receive call processed: what was pending, then its data
Snapshot == pre.buffer \o call.data

\* S[start .. end] is IAC SB option ... IAC SE, and that IAC SE is the first
\* one after the option byte
Subnegotiated(S, start, end) ==
    /\ 1 <= start /\ start + 4 <= end /\ end <= Len(S)
    /\ S[start] = IAC /\ S[start + 1] = SB
    /\ S[end - 1] = IAC /\ S[end] = SE
    /\ \A k \in (start + 3) .. (end - 2) : ~(S[k] = IAC /\ S[k + 1] = SE)

(* C6. MCCP hand-off: when the bytes processed by one receive call are      *)
(* plain data (possibly none), then a complete subnegotiation of MCCP2 or   *)
(* MCCP3, then at least one trailing byte, the call's last event is         *)
(* DecompressImmediate carrying exactly the trailing bytes, the events      *)
(* before it are those of the plain data and of the subnegotiation, no      *)
(* table entry changes and nothing is left in the unparsed buffer.          *)
C6_MccpHandOff ==
    \A start \in 1 .. Len(Snapshot), end \in 1 .. Len(Snapshot) - 1 :
        ( /\ call.name = "receive"
          /\ \A k \in 1 .. start - 1 : Snapshot[k] # IAC
          /\ Subnegotiated(Snapshot, start, end)
          /\ IsCompressOption(Snapshot[start + 2]) )
        => /\ event_list # <<>>
           /\ event_list[Len(event_list)] =
                  EvDecompressImmediate(SubSeq(Snapshot, end + 1, Len(Snapshot)))
           /\ \A i \in 1 .. Len(event_list) - 1 :
                  \/ event_list[i] = EvDataReceive(SubSeq(Snapshot, 1, start - 1))
                  \/ /\ event_list[i].type = "Subnegotiation"
                     /\ event_list[i].option = Snapshot[start + 2]
           /\ options = pre.options
           /\ buffer = <<>>

(* C7. Subnegotiation gating on receive: when the bytes processed by one    *)
(* receive call are exactly one complete subnegotiation IAC SB option       *)
(* payload IAC SE (the payload holding no IAC SE of its own) and the entry  *)
(* of the option does not have both local-support and local-enabled set,    *)
(* the call returns no event, changes no table entry and leaves the         *)
(* unparsed buffer empty.                                                   *)
C7_SubnegotiationGating ==
    ( /\ call.name = "receive"
      /\ Subnegotiated(Snapshot, 1, Len(Snapshot))
      /\ ~(local_support(pre.options[Snapshot[3]])
           /\ local_enabled(pre.options[Snapshot[3]])) )
    => /\ event_list = <<>>
       /\ options = pre.options
       /\ buffer = <<>>

C7_Witness ==
    /\ call.name = "receive"
    /\ pre.buffer = <<IAC, SB, ECHO, ECHO>>
    /\ call.data = <<IAC, SE>>
    /\ local_support(pre.options[ECHO])
    /\ ~local_enabled(pre.options[ECHO])
    /\ event_list = <<>>
    /\ buffer = <<>>

-----------------------------------------------------------------------------
(* SpecLines: one parser with deframe_lines set since construction, fed     *)
(* chunks of carriage returns, line feeds, a letter and the introducer.     *)

LineBytes == {13, 10, 65, IAC}

LineChunks == SeqsUpTo(LineBytes, MaxLineChunk) \ {<<>>}

InitLines ==
    /\ ParserNew(TableDefault, TRUE)
    /\ PeerIdle /\ CodecIdle /\ FeedIdle

NextLines ==
    \/ \E data \in LineChunks : Receive(data, 0, MaxLine)
    \/ FlushLine
    \/ Take

SpecLines == InitLines /\ [][NextLines]_vars

\* positions 1 .. Len(s) - 1 of s at which \r\n or \n\r begins
Terminators(s) ==
    {i \in 1 .. Len(s) - 1 :
        <<s[i], s[i + 1]>> \in {<<13, 10>>, <<10, 13>>}}

\* `input` is lines[1], a terminator, lines[2], a terminator, ..., rest, each
\* terminator being the earliest one of what is left of the input
RECURSIVE SplitsInto(_, _, _)
SplitsInto(input, lines, rest) ==
    IF lines = <<>> THEN input = rest
    ELSE LET n == Len(lines[1].buffer)
         IN /\ lines[1].type = "LineReceive"
            /\ n + 1 \in Terminators(input)
            /\ \A i \in Terminators(input) : n + 1 <= i
            /\ SubSeq(input, 1, n) = lines[1].buffer
            /\ SplitsInto(SubSeq(input, n + 3, Len(input)), Tail(lines), rest)

(* C8. Line deframing reaches a fixed point: with deframe_lines set since   *)
(* construction, the line buffer never holds \r\n or \n\r after a call; a   *)
(* receive call returns no DataReceive; and when the data of a receive call *)
(* holds no introducer, the buffered bytes followed by the data are the     *)
(* returned LineReceive payloads, each followed by the earliest terminator  *)
(* pair of what is left, followed by the bytes that stay in the line        *)
(* buffer.                                                                  *)
C8_LineDeframing ==
    /\ Terminators(line_buffer) = {}
    /\ call.name = "receive" =>
        \A i \in 1 .. Len(event_list) : event_list[i].type # "DataReceive"
    /\ (call.name = "receive" /\ \A i \in 1 .. Len(call.data) : call.data[i] # IAC)
        => SplitsInto(pre.line_buffer \o call.data, event_list, line_buffer)

\* "world" is buffered by an earlier call and "\r\n" completes the line
C8_Witness ==
    /\ call.name = "receive"
    /\ pre.line_buffer = <<65, 65>>
    /\ call.data = <<13, 10>>
    /\ event_list = <<EvLineReceive(<<65, 65>>)>>
    /\ line_buffer = <<>>

-----------------------------------------------------------------------------
(* SpecNet: two engines joined by reliable FIFO channels.  `options` is the *)
(* table of engine A and `peer_options` the table of engine B; chanAB holds *)
(* the DataSend buffers A produced and B has not received yet, chanBA the   *)
(* other direction.  Every message is a whole 3-byte negotiation, so the    *)
(* unparsed buffers of both engines stay empty.                             *)

NetOption == ECHO

SupportFlags == {0, ENABLED_LOCAL, ENABLED_REMOTE, ENABLED_LOCAL + ENABLED_REMOTE}

NetTables == {from_options(<<<<NetOption, f>>>>) : f \in SupportFlags}

\* the buffers of the DataSend events of a returned event list, in order
RECURSIVE Sends(_)
Sends(events) ==
    IF events = <<>> THEN <<>>
    ELSE IF Head(events).type = "DataSend"
         THEN <<Head(events).buffer>> \o Sends(Tail(events))
         ELSE Sends(Tail(events))

HelperCall(name, t, option) ==
    CASE name = "_will" -> _will(t, option)
      [] name = "_wont" -> _wont(t, option)
      [] name = "_do"   -> _do(t, option)
      [] name = "_dont" -> _dont(t, option)

InitNet ==
    /\ \E t \in NetTables : ParserNew(t, FALSE)
    /\ peer_options \in NetTables
    /\ chanAB = <<>> /\ chanBA = <<>> /\ calls = 0 /\ replies = NoReplies
    /\ CodecIdle /\ FeedIdle

\* the application of engine A calls a helper and sends what it returns
HelperA(name) ==
    /\ calls < MaxCalls
    /\ LET r == HelperCall(name, options, NetOption)
       IN /\ options' = r.options
          /\ chanAB' = chanAB \o Sends(r.ret)
    /\ calls' = calls + 1
    /\ UNCHANGED <<deframe_lines, buffer, line_buffer, event_list, call, pre,
                   repeated, peer_options, chanBA, replies>>
    /\ CodecUnchanged /\ FeedUnchanged

HelperB(name) ==
    /\ calls < MaxCalls
    /\ LET r == HelperCall(name, peer_options, NetOption)
       IN /\ peer_options' = r.options
          /\ chanBA' = chanBA \o Sends(r.ret)
    /\ calls' = calls + 1
    /\ UNCHANGED <<options, deframe_lines, buffer, line_buffer, event_list,
                   call, pre, repeated, chanAB, replies>>
    /\ CodecUnchanged /\ FeedUnchanged

\* engine B receives the oldest message of A and sends its replies
DeliverAB ==
    /\ chanAB # <<>>
    /\ LET r == receive(ParserOf(peer_options, FALSE, <<>>, <<>>), Head(chanAB))
       IN /\ peer_options' = r.parser.options
          /\ chanBA' = chanBA \o Sends(r.events)
    /\ chanAB' = Tail(chanAB)
    /\ UNCHANGED <<options, deframe_lines, buffer, line_buffer, event_list,
                   call, pre, repeated, calls, replies>>
    /\ CodecUnchanged /\ FeedUnchanged

\* engine A receives the oldest message of B and sends its replies
DeliverBA ==
    /\ chanBA # <<>>
    /\ LET r == receive(Self, Head(chanBA))
       IN /\ options' = r.parser.options
          /\ chanAB' = chanAB \o Sends(r.events)
    /\ chanBA' = Tail(chanBA)
    /\ UNCHANGED <<deframe_lines, buffer, line_buffer, event_list, call, pre,
                   repeated, peer_options, calls, replies>>
    /\ CodecUnchanged /\ FeedUnchanged

NextNet ==
    \/ \E name \in {"_will", "_wont", "_do", "_dont"} : HelperA(name)
    \/ \E name \in {"_will", "_wont", "_do", "_dont"} : HelperB(name)
    \/ DeliverAB
    \/ DeliverBA

\* every message in a channel is delivered
SpecNet ==
    /\ InitNet
    /\ [][NextNet]_vars
    /\ WF_vars(DeliverAB)
    /\ WF_vars(DeliverBA)

(* C2. The negotiation handshake completes: after the helper calls made on  *)
(* either engine, with every DataSend delivered to the other engine, both   *)
(* channels eventually are empty and stay empty.                            *)
C2_HandshakeCompletes == <>[](chanAB = <<>> /\ chanBA = <<>>)

-----------------------------------------------------------------------------
(* SpecFrag: a complete, valid byte sequence `msg` is fed to one parser in  *)
(* pieces cut at any byte boundaries; `fed` bytes have been given so far    *)
(* and all_events collects what the receive calls returned, in order.       *)

\* a data byte, a command, two negotiations and a subnegotiation
Units ==
    {<<65>>, <<IAC, GA>>, <<IAC, WILL, ECHO>>, <<IAC, DO, ECHO>>,
     <<IAC, SB, ECHO, 65, IAC, SE>>}

RECURSIVE Messages(_)
Messages(n) ==
    IF n = 0 THEN {<<>>}
    ELSE Messages(n - 1) \cup {m \o u : m \in Messages(n - 1), u \in Units}

InitFrag ==
    /\ \E t \in NetTables : ParserNew(t, FALSE)
    /\ msg \in Messages(MaxUnits) \ {<<>>}
    /\ fed = 0
    /\ all_events = <<>>
    /\ PeerIdle /\ CodecIdle

\* the next n bytes of msg are given to receive
Feed(n) ==
    /\ fed + n <= Len(msg)
    /\ LET r == receive(Self, SubSeq(msg, fed + 1, fed + n))
       IN /\ ~r.panic
          /\ options' = r.parser.options
          /\ buffer' = r.parser.buffer
          /\ line_buffer' = r.parser.line_buffer
          /\ all_events' = all_events \o r.events
    /\ fed' = fed + n
    /\ UNCHANGED <<deframe_lines, event_list, call, pre, repeated, msg>>
    /\ PeerUnchanged /\ CodecUnchanged

NextFrag == \E n \in 1 .. MaxUnits * 6 : Feed(n)

SpecFrag == InitFrag /\ [][NextFrag]_vars

\* consecutive DataReceive events become one, with the payloads concatenated
RECURSIVE Merged(_)
Merged(events) ==
    IF Len(events) < 2 THEN events
    ELSE IF events[1].type = "DataReceive" /\ events[2].type = "DataReceive"
         THEN Merged(<<EvDataReceive(events[1].buffer \o events[2].buffer)>>
                     \o SubSeq(events, 3, Len(events)))
         ELSE <<events[1]>> \o Merged(Tail(events))

\* msg given to a parser with the initial table in one receive call
OneCall == receive(ParserOf(pre.options, FALSE, <<>>, <<>>), msg)

(* C1. Fragmentation invariance: once the whole of a complete, valid byte   *)
(* sequence has been fed, in pieces cut at any byte boundaries, the events  *)
(* returned (consecutive DataReceive payloads concatenated) and the table   *)
(* are those of feeding the sequence in one receive call.                   *)
C1_FragmentationInvariance ==
    fed = Len(msg) =>
        /\ Merged(all_events) = Merged(OneCall.events)
        /\ options = OneCall.parser.options

-----------------------------------------------------------------------------
(* Properties of the byte stream, checked under SpecStream                  *)

(* C11. No failure: receive runs to completion without an out-of-range      *)
(* access: the call returns an event list, every subnegotiation span it     *)
(* handed to process has at least 2 bytes, a span with a valid ending has   *)
(* its option byte (at least 3 bytes), and a span delivered as an event has *)
(* at least 5 bytes.                                                        *)
C11_NoFailure ==
    call.name = "receive" =>
        LET spans == extract_event_data(Snapshot)
        IN /\ event_list # Panicked
           /\ \A i \in 1 .. Len(spans) :
                 spans[i].kind = "SubNegotiation" =>
                     LET b == spans[i].buffer
                     IN /\ Len(b) >= 2
                        /\ ValidEnding(b) => Len(b) >= 3
                        /\ (ValidEnding(b)
                            /\ SubnegotiationDelivered(pre.options[b[3]], Len(b)))
                           => Len(b) >= 5

\* the shortest span with a valid ending, IAC SB IAC SE, has been processed:
\* nothing is returned and nothing is kept
C11_Witness ==
    /\ call.name = "receive"
    /\ pre.buffer = <<IAC, SB>>
    /\ call.data = <<IAC, SE>>
    /\ event_list = <<>>
    /\ buffer = <<>>

-----------------------------------------------------------------------------
(* SpecOrder: one parser with line deframing off; each receive call is      *)
(* given a concatenation of data bytes, two-byte commands and negotiations, *)
(* and the caller takes the events and flushes the line buffer after it.    *)

OrderUnits ==
    {<<65>>, <<IAC, GA>>, <<IAC, NOP>>, <<IAC, WILL, ECHO>>, <<IAC, DO, ECHO>>,
     <<IAC, DONT, ECHO>>}

RECURSIVE OrderMessages(_)
OrderMessages(n) ==
    IF n = 0 THEN {<<>>}
    ELSE OrderMessages(n - 1)
         \cup {m \o u : m \in OrderMessages(n - 1), u \in OrderUnits}

OrderTables == {from_options(<<<<ECHO, f>>>>) : f \in RawFlags}

InitOrder ==
    /\ \E t \in OrderTables : ParserNew(t, FALSE)
    /\ PeerIdle /\ CodecIdle /\ FeedIdle

NextOrder ==
    \/ \E data \in OrderMessages(MaxOrderUnits) \ {<<>>} :
           Receive(data, 0, MaxOrderUnits)
    \/ TakeFlush

SpecOrder == InitOrder /\ [][NextOrder]_vars

\* the number of bytes of data before its first IAC
RECURSIVE RunLen(_)
RunLen(data) ==
    IF data = <<>> \/ Head(data) = IAC THEN 0 ELSE 1 + RunLen(Tail(data))

\* data read unit by unit from the left, starting with table t: whether it
\* is a concatenation of plain-data runs, two-byte commands and 3-byte
\* negotiations, and then the events of the units, in order, and the table
RECURSIVE UnitEvents(_, _)
UnitEvents(t, data) ==
    IF data = <<>> THEN [ok |-> TRUE, options |-> t, events |-> <<>>]
    ELSE IF data[1] # IAC THEN
        LET n == RunLen(data)
            r == UnitEvents(t, SubSeq(data, n + 1, Len(data)))
        IN [r EXCEPT !.events = <<EvDataReceive(SubSeq(data, 1, n))>> \o @]
    ELSE IF Len(data) >= 2 /\ data[2] \in {GA, EOR, NOP} THEN
        LET r == UnitEvents(t, SubSeq(data, 3, Len(data)))
        IN [r EXCEPT !.events = <<EvIac(data[2])>> \o @]
    ELSE IF Len(data) >= 3 /\ data[2] \in Commands THEN
        LET n == process_negotiation(t, data[2], data[3])
            r == UnitEvents(n.options, SubSeq(data, 4, Len(data)))
        IN [r EXCEPT !.events = n.events \o @]
    ELSE [ok |-> FALSE, options |-> t, events |-> <<>>]

(* C12. Event order follows byte order: with line deframing off, a receive  *)
(* call on an empty unparsed buffer whose data is a concatenation of        *)
(* plain-data runs, complete two-byte commands and complete negotiations    *)
(* returns, in the order of the input, one DataReceive per maximal data run *)
(* with the bytes of the run, one Iac per command, and what each            *)
(* negotiation yields; nothing stays in the unparsed buffer.                *)
C12_EventOrder ==
    ( /\ call.name = "receive"
      /\ ~pre.deframe_lines
      /\ pre.buffer = <<>>
      /\ UnitEvents(pre.options, call.data).ok )
    => /\ event_list = UnitEvents(pre.options, call.data).events
       /\ options = UnitEvents(pre.options, call.data).options
       /\ buffer = <<>>

\* data, a command, then an accepted negotiation, in one call
C12_Witness ==
    /\ call.name = "receive"
    /\ pre.buffer = <<>>
    /\ call.data = <<65, IAC, NOP, IAC, WILL, ECHO>>
    /\ event_list = <<EvDataReceive(<<65>>), EvIac(NOP),
                      EvDataSend(<<IAC, DO, ECHO>>), EvNegotiation(WILL, ECHO)>>

-----------------------------------------------------------------------------
(* Properties of the table, checked under Spec                              *)

(* C13. reset_states clears local-enabled and remote-enabled of every entry *)
(* and leaves local-support and remote-support of every entry as they were. *)
C13_ResetStates ==
    call.name = "reset_states" =>
        \A o \in DOMAIN options :
            /\ ~local_enabled(options[o])
            /\ ~remote_enabled(options[o])
            /\ local_support(options[o]) = local_support(pre.options[o])
            /\ remote_support(options[o]) = remote_support(pre.options[o])

\* one entry with all four flags set, another with both enabled flags only
C13_Witness ==
    /\ call.name = "reset_states"
    /\ pre.options[ECHO] = DEFINED_FLAGS
    /\ pre.options[MCCP2] = LOCAL_STATE + REMOTE_STATE
    /\ options[ECHO] = ENABLED_LOCAL + ENABLED_REMOTE
    /\ options[MCCP2] = 0

(* C14. Table masking: every entry of a table made by from_options from any *)
(* raw bytes, and of every table the calls make of it, has no bit outside   *)
(* the four defined flags; the entries of options that were not listed (and *)
(* that no support call names) are all-clear.                               *)
C14_TableMasking ==
    /\ \A o \in DOMAIN options : options[o] \in 0 .. DEFINED_FLAGS
    /\ \A o \in DOMAIN options \ Opts : options[o] = 0

\* a table just made from raw bytes with bits outside the defined flags
C14_Witness ==
    /\ call = NoCall
    /\ options = from_options(<<<<ECHO, 255>>, <<MCCP2, 240>>>>)
    /\ options[ECHO] = DEFINED_FLAGS
    /\ options[MCCP2] = 0

-----------------------------------------------------------------------------
(* Properties of received negotiations, checked under Spec                  *)

\* the last call was receive of exactly IAC DO option, nothing pending
ReceivedDo ==
    /\ call.name = "receive"
    /\ pre.buffer = <<>>
    /\ Len(call.data) = 3
    /\ call.data[1] = IAC /\ call.data[2] = DO

OnlyWont ==
    /\ event_list = <<EvDataSend(<<IAC, WONT, call.data[3]>>)>>
    /\ options = pre.options

(* C15, as stated. DO rejection: receive of IAC DO option for an entry with *)
(* local-support clear, or with local-enabled already set, returns exactly  *)
(* DataSend(IAC WONT option), no Negotiation, and leaves the table as it    *)
(* was.                                                                     *)
C15_DoRejectionAsStated ==
    ( /\ ReceivedDo
      /\ \/ ~local_support(pre.options[call.data[3]])
         \/ local_enabled(pre.options[call.data[3]]) )
    => OnlyWont

(* C15, amended. DO rejection: receive of IAC DO option for an entry with   *)
(* local-support clear returns exactly DataSend(IAC WONT option), no        *)
(* Negotiation, and leaves the table as it was; for an entry with           *)
(* local-support and local-enabled both set it returns no event at all and  *)
(* leaves the table as it was.                                              *)
C15_DoRejection ==
    /\ (ReceivedDo /\ ~local_support(pre.options[call.data[3]])) => OnlyWont
    /\ ( /\ ReceivedDo
         /\ local_support(pre.options[call.data[3]])
         /\ local_enabled(pre.options[call.data[3]]) )
       => (event_list = <<>> /\ options = pre.options)

\* DO for an option that is enabled locally and supported: nothing returned
C15_Witness ==
    /\ ReceivedDo
    /\ call.data[3] = ECHO
    /\ local_support(pre.options[ECHO])
    /\ local_enabled(pre.options[ECHO])
    /\ event_list = <<>>

-----------------------------------------------------------------------------
(* Properties of the pieces of a byte sequence, checked under SpecFrag      *)

\* the length of the protocol unit data begins with (data is a non-empty
\* concatenation of units): the end of a subnegotiation is the first IAC SE
\* after its option byte
RECURSIVE SubnegotiationLen(_, _)
SubnegotiationLen(data, k) ==
    IF k + 1 > Len(data) THEN Len(data)
    ELSE IF data[k] = IAC /\ data[k + 1] = SE THEN k + 1
    ELSE SubnegotiationLen(data, k + 1)

UnitLen(data) ==
    IF data[1] # IAC THEN 1
    ELSE IF data[2] \in {GA, EOR, NOP} THEN 2
    ELSE IF data[2] = SB THEN SubnegotiationLen(data, 4)
    ELSE 3

\* the last position <= k of data at which a unit ends (0: the beginning)
RECURSIVE LastBoundary(_, _)
LastBoundary(data, k) ==
    IF data = <<>> THEN 0
    ELSE LET n == UnitLen(data)
         IN IF n > k THEN 0
            ELSE n + LastBoundary(SubSeq(data, n + 1, Len(data)), k - n)

\* the bytes given so far that belong to a unit not yet complete
Unterminated == SubSeq(msg, LastBoundary(msg, fed) + 1, fed)

(* C16. Unterminated spans are deferred, never emitted: when the bytes      *)
(* given so far end inside a unit that is not complete (a lone IAC, IAC and *)
(* a negotiation command without its option, a subnegotiation without its  *)
(* IAC SE), the bytes of that unit are in the unparsed buffer, in order,    *)
(* and the events returned so far are those of the complete units before    *)
(* it.                                                                      *)
C16_UnterminatedDeferred ==
    Unterminated # <<>> =>
        /\ buffer = Unterminated
        /\ Merged(all_events) =
               Merged(receive(ParserOf(pre.options, FALSE, <<>>, <<>>),
                              SubSeq(msg, 1, LastBoundary(msg, fed))).events)

-----------------------------------------------------------------------------
(* Subnegotiations received in pieces, checked under SpecStream             *)

\* S begins with IAC SB and no IAC SE follows its option byte (the third
\* byte, whatever its value)
OpenSubnegotiation(S) ==
    /\ Len(S) >= 2
    /\ S[1] = IAC /\ S[2] = SB
    /\ \A k \in 4 .. Len(S) - 1 : ~(S[k] = IAC /\ S[k + 1] = SE)

(* C17. Subnegotiation reassembly: once IAC SB is pending in the unparsed   *)
(* buffer, a receive call after which the terminating IAC SE has still not  *)
(* arrived (for any option byte, 255 and 240 included) returns no event,    *)
(* changes no table entry and leaves every byte from IAC SB onwards, in     *)
(* order, in the unparsed buffer.  (The call that brings the terminator     *)
(* then processes exactly the bytes of the whole subnegotiation.)           *)
C17_SubnegotiationReassembly ==
    ( /\ call.name = "receive"
      /\ OpenSubnegotiation(pre.buffer)
      /\ OpenSubnegotiation(Snapshot) )
    => /\ event_list = <<>>
       /\ options = pre.options
       /\ buffer = Snapshot

-----------------------------------------------------------------------------
(* Subnegotiations sent and received, checked under Spec                    *)

(* C18. Subnegotiation payload round trip: when subnegotiation(option, p)   *)
(* with a non-empty payload p has returned a DataSend, the bytes of that    *)
(* DataSend given to receive on an engine with the same table (option       *)
(* locally supported and enabled, nothing pending) yield exactly one event, *)
(* Subnegotiation{option, buffer: p}.  (Stated for the options other than   *)
(* MCCP2 and MCCP3, whose subnegotiation is followed by a                   *)
(* DecompressImmediate event.)                                              *)
C18_SubnegotiationRoundTrip ==
    ( /\ call.name = "subnegotiation"
      /\ ~IsCompressOption(call.option)
      /\ call.data # <<>>
      /\ event_list # None
      /\ buffer = <<>> )
    => receive(Self, event_list[1].buffer).events
           = <<EvSubnegotiation(call.option, call.data)>>

-----------------------------------------------------------------------------
(* Escaping inside a subnegotiation, checked under SpecStream               *)

\* S read from position k on, every IAC toggling the escaped sub-state esc
\* and any other byte ending it: the position of the SE that closes the
\* span (an SE read while escaped), 0 when the span is still open
RECURSIVE ClosedAt(_, _, _)
ClosedAt(S, k, esc) ==
    IF k > Len(S) THEN 0
    ELSE IF S[k] = IAC THEN ClosedAt(S, k + 1, ~esc)
    ELSE IF S[k] = SE /\ esc THEN k
    ELSE ClosedAt(S, k + 1, FALSE)

\* the last receive call processed a subnegotiation IAC SB option ..., the
\* option byte not being IAC
ProcessedSubnegotiation ==
    /\ call.name = "receive"
    /\ Len(Snapshot) >= 3
    /\ Snapshot[1] = IAC /\ Snapshot[2] = SB /\ Snapshot[3] # IAC

(* C19. Inside a subnegotiation every IAC toggles the escaped sub-state and *)
(* SE closes the span only while escaped: a span that this reading leaves   *)
(* open at the end of the processed bytes (IAC IAC SE does not close it) is *)
(* kept whole in the unparsed buffer with no event returned, and a span     *)
(* that it closes with the last processed byte leaves nothing in the        *)
(* unparsed buffer.                                                         *)
C19_EscapedSubState ==
    /\ (ProcessedSubnegotiation /\ ClosedAt(Snapshot, 4, FALSE) = 0)
       => (event_list = <<>> /\ buffer = Snapshot)
    /\ (ProcessedSubnegotiation /\ ClosedAt(Snapshot, 4, FALSE) = Len(Snapshot))
       => buffer = <<>>

-----------------------------------------------------------------------------
(* The doubled introducer in plain data, checked under Spec                 *)

\* s without its elements k and k + 1
WithoutPair(s, k) == SubSeq(s, 1, k - 1) \o SubSeq(s, k + 2, Len(s))

(* C20. A doubled introducer outside a subnegotiation is ignored: when the  *)
(* data of a receive call (nothing pending) is plain data, an IAC IAC pair, *)
(* plain data, the call returns what it returns for the same data without   *)
(* the pair (consecutive DataReceive payloads concatenated): no event for   *)
(* the pair, the data before and after it delivered; the table is as it     *)
(* was.                                                                     *)
C20_DoubledIntroducerIgnored ==
    \A k \in 1 .. Len(call.data) - 1 :
        ( /\ call.name = "receive"
          /\ pre.buffer = <<>>
          /\ call.data[k] = IAC /\ call.data[k + 1] = IAC
          /\ \A i \in (1 .. Len(call.data)) \ {k, k + 1} : call.data[i] # IAC )
        => /\ Merged(event_list) =
                  Merged(receive(ParserOf(pre.options, FALSE, <<>>, <<>>),
                                 WithoutPair(call.data, k)).events)
           /\ options = pre.options

-----------------------------------------------------------------------------
(* The line buffer with line deframing off, checked under Spec              *)

(* C21. Plain data goes to exactly one sink: on a parser whose              *)
(* deframe_lines flag has never been set, plain data is delivered as        *)
(* DataReceive and not appended to the line buffer: the line buffer is      *)
(* empty after every call, and flush_line returns None (no bytes).          *)
C21_OneSink ==
    ~deframe_lines =>
        /\ line_buffer = <<>>
        /\ call.name = "flush_line" => call.data = NoBytes

-----------------------------------------------------------------------------
(* The shortest subnegotiation, checked under SpecStream                    *)

\* the last receive call processed exactly the 5 bytes IAC SB option IAC SE
ProcessedEmptySubnegotiation ==
    /\ call.name = "receive"
    /\ Len(Snapshot) = 5
    /\ Snapshot[1] = IAC /\ Snapshot[2] = SB /\ Snapshot[3] # IAC
    /\ Snapshot[4] = IAC /\ Snapshot[5] = SE

NoSubnegotiationEvent ==
    \A i \in 1 .. Len(event_list) : event_list[i].type # "Subnegotiation"

(* C22, as stated. A complete subnegotiation with nothing between header    *)
(* and trailer (the 5 bytes IAC SB option IAC SE) yields no Subnegotiation  *)
(* event, even when the option has local-support and local-enabled set.     *)
C22_EmptySubnegotiationAsStated ==
    ProcessedEmptySubnegotiation => NoSubnegotiationEvent

(* C22, amended. The 5 bytes IAC SB option IAC SE, for an option with       *)
(* local-support and local-enabled set, yield Subnegotiation{option, empty  *)
(* buffer} as the first event (the only one, but for MCCP2 and MCCP3); for  *)
(* any other entry they yield no event; and a receive call returns a        *)
(* Subnegotiation event only when it processed at least 5 bytes.            *)
C22_EmptySubnegotiation ==
    /\ ( /\ ProcessedEmptySubnegotiation
         /\ local_support(pre.options[Snapshot[3]])
         /\ local_enabled(pre.options[Snapshot[3]]) )
       => /\ event_list # <<>>
          /\ event_list[1] = EvSubnegotiation(Snapshot[3], <<>>)
          /\ ~IsCompressOption(Snapshot[3]) => Len(event_list) = 1
    /\ ( /\ ProcessedEmptySubnegotiation
         /\ ~(local_support(pre.options[Snapshot[3]])
              /\ local_enabled(pre.options[Snapshot[3]])) )
       => event_list = <<>>
    /\ (call.name = "receive" /\ ~NoSubnegotiationEvent) => Len(Snapshot) >= 5

\* IAC SB ECHO arrives first, IAC SE completes it, ECHO being enabled
C22_Witness ==
    /\ ProcessedEmptySubnegotiation
    /\ pre.buffer = <<IAC, SB, ECHO>>
    /\ local_support(pre.options[ECHO]) /\ local_enabled(pre.options[ECHO])
    /\ event_list = <<EvSubnegotiation(ECHO, <<>>)>>

-----------------------------------------------------------------------------
(* Received DO, WONT, DONT and WILL, checked under Spec                     *)

\* the last call was receive of exactly IAC command option, nothing pending
ReceivedNegotiation(command, o) ==
    /\ call.name = "receive"
    /\ call.data = <<IAC, command, o>>
    /\ pre.buffer = <<>>

\* the support flags of the entry of o are as they were
SupportKept(o) ==
    /\ local_support(options[o]) = local_support(pre.options[o])
    /\ remote_support(options[o]) = remote_support(pre.options[o])

(* C23. DO acceptance: receive of IAC DO option for an entry with           *)
(* local-support set and local-enabled clear returns                        *)
(* [DataSend(IAC WILL option), Negotiation{DO, option}], sets local-enabled *)
(* and remote-enabled of that entry, whatever its remote-support, and       *)
(* changes no support flag and no other entry.                              *)
C23_DoAcceptance ==
    \A o \in Bytes :
        ( /\ ReceivedNegotiation(DO, o)
          /\ local_support(pre.options[o])
          /\ ~local_enabled(pre.options[o]) )
        => /\ event_list = <<EvDataSend(<<IAC, WILL, o>>), EvNegotiation(DO, o)>>
           /\ local_enabled(options[o])
           /\ remote_enabled(options[o])
           /\ SupportKept(o)
           /\ SameButEntry(options, pre.options, o)

\* remote-support and remote-enabled clear before, remote-enabled set after
C23_Witness ==
    /\ ReceivedNegotiation(DO, ECHO)
    /\ pre.options[ECHO] = ENABLED_LOCAL
    /\ options[ECHO] = ENABLED_LOCAL + LOCAL_STATE + REMOTE_STATE
    /\ Len(event_list) = 2

(* C24. WONT and DONT always notify and always end disabled: receive of IAC *)
(* WONT option (IAC DONT option) returns Negotiation{WONT, option}          *)
(* (Negotiation{DONT, option}) as its last event and leaves remote-enabled  *)
(* (local-enabled) of the entry clear; when the flag was set the one event  *)
(* before it is DataSend(IAC DONT option) (DataSend(IAC WONT option)) and   *)
(* only that flag changes; when the flag was clear it is the only event and *)
(* the table is as it was.                                                  *)
C24_WontDontNotify ==
    \A o \in Bytes :
        /\ ReceivedNegotiation(WONT, o) =>
            /\ ~remote_enabled(options[o])
            /\ SameBut(options[o], pre.options[o], REMOTE_STATE)
            /\ SameButEntry(options, pre.options, o)
            /\ event_list =
                   IF remote_enabled(pre.options[o])
                   THEN <<EvDataSend(<<IAC, DONT, o>>), EvNegotiation(WONT, o)>>
                   ELSE <<EvNegotiation(WONT, o)>>
        /\ ReceivedNegotiation(DONT, o) =>
            /\ ~local_enabled(options[o])
            /\ SameBut(options[o], pre.options[o], LOCAL_STATE)
            /\ SameButEntry(options, pre.options, o)
            /\ event_list =
                   IF local_enabled(pre.options[o])
                   THEN <<EvDataSend(<<IAC, WONT, o>>), EvNegotiation(DONT, o)>>
                   ELSE <<EvNegotiation(DONT, o)>>

\* WONT for an option enabled remotely though not supported remotely
C24_Witness ==
    /\ ReceivedNegotiation(WONT, ECHO)
    /\ pre.options[ECHO] = REMOTE_STATE
    /\ options[ECHO] = 0
    /\ event_list = <<EvDataSend(<<IAC, DONT, ECHO>>), EvNegotiation(WONT, ECHO)>>

(* C25. A WILL that is not accepted never notifies and never mutates:       *)
(* receive of IAC WILL option for an entry with remote-support clear        *)
(* returns exactly [DataSend(IAC DONT option)]; for an entry with           *)
(* remote-support and remote-enabled set it returns no event; in both cases *)
(* the table is as it was.                                                  *)
C25_WillNotAccepted ==
    \A o \in Bytes :
        /\ (ReceivedNegotiation(WILL, o) /\ ~remote_support(pre.options[o]))
           => /\ event_list = <<EvDataSend(<<IAC, DONT, o>>)>>
              /\ options = pre.options
        /\ ( /\ ReceivedNegotiation(WILL, o)
             /\ remote_support(pre.options[o])
             /\ remote_enabled(pre.options[o]) )
           => /\ event_list = <<>>
              /\ options = pre.options

\* the peer repeats WILL for an option that is already enabled: no second DO
C25_Witness ==
    /\ ReceivedNegotiation(WILL, ECHO)
    /\ remote_support(pre.options[ECHO])
    /\ remote_enabled(pre.options[ECHO])
    /\ event_list = <<>>

-----------------------------------------------------------------------------
(* The remote invariant, checked under Spec                                 *)

\* no entry of t has remote-enabled set with remote-support clear
RemoteEnabledSupported(t) ==
    \A o \in DOMAIN t : remote_enabled(t[o]) => remote_support(t[o])

(* C26. remote-enabled implies remote-support is preserved by every receive *)
(* call and every helper call: if it held of the table when the call was    *)
(* made, it holds when the call returns.                                    *)
C26_RemoteEnabledImpliesSupport ==
    ( /\ call.name \in {"receive"} \cup Helpers
      /\ RemoteEnabledSupported(pre.options) )
    => RemoteEnabledSupported(options)

-----------------------------------------------------------------------------
(* SpecOne: the two engines of SpecNet, nothing enabled and the channels    *)
(* empty; engine A makes a single _will or _do call for one option, and     *)
(* every message is delivered.  `replies` counts the DataSends the two      *)
(* receive sides return.                                                    *)

OneTables ==
    {from_options(<<<<ECHO, a>>, <<MCCP2, b>>>>) :
        a \in SupportFlags, b \in SupportFlags}

InitOne ==
    /\ \E t \in OneTables : ParserNew(t, FALSE)
    /\ peer_options \in OneTables
    /\ chanAB = <<>> /\ chanBA = <<>> /\ calls = 0 /\ replies = NoReplies
    /\ CodecIdle /\ FeedIdle

\* the one helper call, on engine A
FirstCall(name, option) ==
    /\ calls = 0
    /\ LET r == HelperCall(name, options, option)
       IN /\ options' = r.options
          /\ chanAB' = chanAB \o Sends(r.ret)
    /\ calls' = 1
    /\ call' = CallOf(name, 0, option, <<>>)
    /\ UNCHANGED <<deframe_lines, buffer, line_buffer, event_list, pre,
                   repeated, peer_options, chanBA, replies>>
    /\ CodecUnchanged /\ FeedUnchanged

\* engine B receives the oldest message of A; its replies go to A
PeerReceives ==
    /\ chanAB # <<>>
    /\ LET r == receive(ParserOf(peer_options, FALSE, <<>>, <<>>), Head(chanAB))
       IN /\ peer_options' = r.parser.options
          /\ chanBA' = chanBA \o Sends(r.events)
          /\ replies' = [replies EXCEPT !.BA = @ + Len(Sends(r.events))]
    /\ chanAB' = Tail(chanAB)
    /\ UNCHANGED <<options, deframe_lines, buffer, line_buffer, event_list,
                   call, pre, repeated, calls>>
    /\ CodecUnchanged /\ FeedUnchanged

\* engine A receives the oldest message of B; its replies go to B
ParserReceives ==
    /\ chanBA # <<>>
    /\ LET r == receive(Self, Head(chanBA))
       IN /\ options' = r.parser.options
          /\ chanAB' = chanAB \o Sends(r.events)
          /\ replies' = [replies EXCEPT !.AB = @ + Len(Sends(r.events))]
    /\ chanBA' = Tail(chanBA)
    /\ UNCHANGED <<deframe_lines, buffer, line_buffer, event_list, call, pre,
                   repeated, peer_options, calls>>
    /\ CodecUnchanged /\ FeedUnchanged

NextOne ==
    \/ \E name \in {"_will", "_do"}, o \in Opts : FirstCall(name, o)
    \/ PeerReceives
    \/ ParserReceives

SpecOne ==
    /\ InitOne
    /\ [][NextOne]_vars
    /\ WF_vars(PeerReceives)
    /\ WF_vars(ParserReceives)

Quiet == chanAB = <<>> /\ chanBA = <<>>

\* with nothing in flight the two engines agree on the side the call named
Agreement ==
    (Quiet /\ calls = 1) =>
        /\ call.name = "_will" =>
               local_enabled(options[call.option])
                   = remote_enabled(peer_options[call.option])
        /\ call.name = "_do" =>
               remote_enabled(options[call.option])
                   = local_enabled(peer_options[call.option])

(* C27. Single negotiation agreement: after one _will(option) or            *)
(* _do(option) on engine A, from any support flags on the two engines and   *)
(* nothing enabled, at most one reply is ever sent in each direction, the   *)
(* channels become empty and stay empty, and whenever nothing is in flight  *)
(* the engines agree: after _will, local-enabled of A equals remote-enabled *)
(* of B; after _do, remote-enabled of A equals local-enabled of B.          *)
C27_SingleNegotiationAgreement ==
    /\ [](replies.AB <= 1 /\ replies.BA <= 1 /\ Agreement)
    /\ <>[]Quiet

\* _will refused: B answered DONT, A answered WONT, nothing is enabled
C27_Witness ==
    /\ Quiet
    /\ call = CallOf("_will", 0, ECHO, <<>>)
    /\ replies = [AB |-> 1, BA |-> 1]
    /\ ~local_enabled(options[ECHO])
    /\ ~remote_enabled(peer_options[ECHO])

=============================================================================
